---- MODULE Spec2Model ----
(***************************************************************************)
(* DialogContainer of botbuilder-dialogs: version-change detection         *)
(* (check_for_version_change_async), event handling (on_dialog_event) and  *)
(* the collaborators they call (DialogSet, DialogContext, base Dialog).    *)
(*                                                                         *)
(* One conversation runs the nesting O > C > L: O and C are containers,    *)
(* L is a leaf dialog.  Context d (1 = root) has the instance stack[c][d]  *)
(* as its active dialog and context d-1 as its parent.                     *)
(***************************************************************************)
EXTENDS Integers, Sequences, FiniteSets, TLC

VARIABLES
    dialogs,   \* container id -> its DialogSet: member ids in insertion order
    stack,     \* conversation -> the active DialogInstances, outer to inner
    checked,   \* conversation -> depth -> fingerprint computed by the last check of that instance
    last,      \* what the most recent operation did and what its collaborators recorded
    config,    \* container id -> the configuration flag an overriding container folds into its version
    pc         \* conversation -> where its turn stands: idle, or suspended in the awaited dispatch

vars == <<dialogs, stack, checked, last, config, pc>>

----------------------------------------------------------------------------
(* Bounds *)

\* Largest number of members of one DialogSet.
MaxDialogs == 2
\* Deepest nesting of check_for_version_change_async calls made from inside
\* event handlers before the interpreter gives up (RecursionError).
MaxReentry == 2

----------------------------------------------------------------------------
(* The dialog tree *)

Chain == <<"O", "C", "L">>
Depth == Len(Chain)
Containers == {"O", "C"}
\* The dialogs that may join or leave each container's set besides its child.
ExtraIds(k) == IF k = "O" THEN {"x"} ELSE {"x", "y"}

\* DialogEvents.version_changed
version_changed == "versionChanged"
EventNames == {version_changed, "custom"}

\* DialogInstance.version is a nullable string: None, "" or a fingerprint.
NoneVersion == -1
EmptyVersion == 0

\* Python truthiness of `current` in `if current and ...`.
Truthy(v) == v # NoneVersion /\ v # EmptyVersion

----------------------------------------------------------------------------
(* DialogSet *)

HashBase == 5

MemberCode(id) ==
    CASE id = "C" -> 1
      [] id = "L" -> 2
      [] id = "x" -> 3
      [] id = "y" -> 4

\* Folds the members' ids, in order, into one token.
RECURSIVE Combine(_, _)
Combine(h, members) ==
    IF members = <<>> THEN h
    ELSE Combine(h * HashBase + MemberCode(Head(members)), Tail(members))

DialogSet_get_internal_version(members) == Combine(1, members)

Ids(members) == {members[i] : i \in DOMAIN members}

AllIds == Ids(Chain) \cup {"x", "y"}

\* What a lookup returns for an id that is not registered (None).
NotFound == "None"

\* DialogSet.find_dialog: the dialog registered under id, or not-found.
DialogSet_find_dialog(members, id) == IF id \in Ids(members) THEN id ELSE NotFound

\* A lookup that fails on a missing id (KeyError of `self.dialogs[dialog_id]`).
find_dialog_failing_on_missing(members, id) ==
    [dialog |-> DialogSet_find_dialog(members, id), raised |-> id \notin Ids(members),
     members |-> members]

\* DialogContainer.find_dialog(dialog_id) of a container with these members:
\* what it returns, whether it fails, and the members it leaves.
find_dialog(members, id) ==
    [dialog |-> DialogSet_find_dialog(members, id), raised |-> FALSE, members |-> members]

\* A version that only counts the members of the dialog set.
get_internal_version_by_count(d) == Len(dialogs[Chain[d]]) + 1

\* DialogContainer.get_internal_version of the container active at depth d.
get_internal_version(d) == DialogSet_get_internal_version(dialogs[Chain[d]])

\* The containers whose class overrides get_internal_version.
Overriding == {"C"}

\* The override: the dialog set's fingerprint with the configuration flag folded in.
Override_get_internal_version(d) == get_internal_version(d) * 2 + config[Chain[d]]

\* `self.get_internal_version()`: the method of the container's own class.
self_get_internal_version(d) ==
    IF Chain[d] \in Overriding THEN Override_get_internal_version(d)
    ELSE get_internal_version(d)

----------------------------------------------------------------------------
(* One turn's working state, threaded through the calls of one operation:    *)
(*   stack     the conversation's instances                                  *)
(*   emitted   the calls of DialogContext.emit_event                         *)
(*   observed  the events the base Dialog.on_dialog_event was given          *)
(*   delivered what each on_dialog_event call returned to emit_event         *)
(*   traces    the messages given to TurnContext.send_trace_activity         *)
(*   raised    an exception is propagating                                   *)
(*   checks    the contexts check_for_version_change_async was called on     *)

Turn(instances) ==
    [stack |-> instances, emitted |-> <<>>, observed |-> <<>>,
     delivered |-> <<>>, traces |-> <<>>, raised |-> FALSE, checks |-> {}]

active_dialog(t, d) == t.stack[d]

DialogEvent(name, value, bubble) == [name |-> name, value |-> value, bubble |-> bubble]

\* f"Unhandled dialog event: {dialog_event.name}. Active Dialog: {dialog_context.active_dialog.id}"
trace_message(name, id) == <<"Unhandled dialog event: ", name, ". Active Dialog: ", id>>

send_trace_activity(t, message) == [t EXCEPT !.traces = Append(@, message)]

\* What the application's handler behind the base Dialog.on_dialog_event does.
Policies == {"ignore", "handle", "recheck", "raise"}

RECURSIVE check_for_version_change_async(_, _, _, _)
RECURSIVE emit_event(_, _, _, _, _, _, _, _)
RECURSIVE Deliver(_, _, _, _, _)
RECURSIVE on_dialog_event(_, _, _, _, _)
RECURSIVE Dialog_on_dialog_event(_, _, _, _, _)

\* Base Dialog.on_dialog_event at context d: the application's verdict.
Dialog_on_dialog_event(t, d, ev, h, nest) ==
    LET seen == [t EXCEPT !.observed = Append(@, [depth |-> d, name |-> ev.name,
                                                    value |-> ev.value, bubble |-> ev.bubble])]
    IN  CASE h[d] = "handle" -> [t |-> seen, handled |-> TRUE]
          [] h[d] = "ignore" -> [t |-> seen, handled |-> FALSE]
          [] h[d] = "raise"  -> [t |-> [seen EXCEPT !.raised = TRUE], handled |-> FALSE]
          \* the turn is cancelled while the handler is awaited: CancelledError
          [] h[d] = "cancel" -> [t |-> [seen EXCEPT !.raised = TRUE], handled |-> FALSE]
          [] h[d] = "recheck" ->
               IF Chain[d] \notin Containers THEN [t |-> seen, handled |-> FALSE]
               ELSE IF nest >= MaxReentry
                    THEN [t |-> [seen EXCEPT !.raised = TRUE], handled |-> FALSE]
                    ELSE [t |-> check_for_version_change_async(seen, d, h, nest + 1),
                          handled |-> FALSE]

\* An on_dialog_event that reports a traced event as handled.
on_dialog_event_handling_traced(t, d, ev, h, nest) ==
    LET base == Dialog_on_dialog_event(t, d, ev, h, nest)
    IN  IF base.t.raised THEN base
        ELSE IF ~base.handled /\ ev.name = version_changed
             THEN [t |-> send_trace_activity(base.t,
                             trace_message(ev.name, active_dialog(base.t, d).id)),
                   handled |-> TRUE]
             ELSE base

\* An on_dialog_event that traces every unhandled event, whatever its name.
on_dialog_event_tracing_all(t, d, ev, h, nest) ==
    LET base == Dialog_on_dialog_event(t, d, ev, h, nest)
    IN  IF base.t.raised THEN base
        ELSE IF ~base.handled
             THEN [t |-> send_trace_activity(base.t,
                             trace_message(ev.name, active_dialog(base.t, d).id)),
                   handled |-> base.handled]
             ELSE base

\* An on_dialog_event that fails on an unhandled versionChanged event.
on_dialog_event_failing_unhandled(t, d, ev, h, nest) ==
    LET base == Dialog_on_dialog_event(t, d, ev, h, nest)
    IN  IF base.t.raised THEN base
        ELSE IF ~base.handled /\ ev.name = version_changed
             THEN [t |-> [base.t EXCEPT !.raised = TRUE], handled |-> FALSE]
             ELSE base

\* An on_dialog_event that traces and then returns nothing (None, falsy).
on_dialog_event_returning_none(t, d, ev, h, nest) ==
    LET base == Dialog_on_dialog_event(t, d, ev, h, nest)
    IN  IF base.t.raised THEN base
        ELSE IF ~base.handled /\ ev.name = version_changed
             THEN [t |-> send_trace_activity(base.t,
                             trace_message(ev.name, active_dialog(base.t, d).id)),
                   handled |-> FALSE]
             ELSE [t |-> base.t, handled |-> FALSE]

\* An on_dialog_event that hands every event it left unhandled to the parent
\* context itself, whatever the bubble flag says.
on_dialog_event_forwarding(t, d, ev, h, nest) ==
    LET base == Dialog_on_dialog_event(t, d, ev, h, nest)
    IN  IF base.t.raised \/ base.handled \/ d = 1 THEN base
        ELSE Deliver(base.t, d - 1, ev, h, nest)

\* An on_dialog_event that swallows a failure of the base handling.
on_dialog_event_swallowing(t, d, ev, h, nest) ==
    LET base == Dialog_on_dialog_event(t, d, ev, h, nest)
    IN  IF base.t.raised THEN [t |-> [base.t EXCEPT !.raised = FALSE], handled |-> FALSE]
        ELSE IF ~base.handled /\ ev.name = version_changed
             THEN [t |-> send_trace_activity(base.t,
                             trace_message(ev.name, active_dialog(base.t, d).id)),
                   handled |-> base.handled]
             ELSE base

\* An on_dialog_event that clears the stored version of the active dialog
\* when nobody handled the change, to start over.
on_dialog_event_clearing_version(t, d, ev, h, nest) ==
    LET base == Dialog_on_dialog_event(t, d, ev, h, nest)
    IN  IF base.t.raised THEN base
        ELSE IF ~base.handled /\ ev.name = version_changed
             THEN [t |-> [send_trace_activity(base.t,
                             trace_message(ev.name, active_dialog(base.t, d).id))
                            EXCEPT !.stack[d].version = NoneVersion],
                   handled |-> base.handled]
             ELSE base

\* DialogContainer.on_dialog_event.
on_dialog_event(t, d, ev, h, nest) ==
    LET base == Dialog_on_dialog_event(t, d, ev, h, nest)
        handled == base.handled
    IN  IF base.t.raised THEN base
        ELSE IF ~handled /\ ev.name = version_changed
             THEN [t |-> send_trace_activity(base.t,
                             trace_message(ev.name, active_dialog(base.t, d).id)),
                   handled |-> handled]
             ELSE [t |-> base.t, handled |-> handled]

\* The active dialog of context d gets the event; while it stays unhandled and
\* bubbles, the parent context's active dialog gets it.
Deliver(t, d, ev, h, nest) ==
    LET r == IF Chain[d] \in Containers
             THEN on_dialog_event(t, d, ev, h, nest)
             ELSE Dialog_on_dialog_event(t, d, ev, h, nest)
        t1 == IF r.t.raised THEN r.t
              ELSE [r.t EXCEPT !.delivered = Append(@, [depth |-> d, handled |-> r.handled])]
    IN  IF r.t.raised THEN [t |-> t1, handled |-> FALSE]
        ELSE IF ~r.handled /\ ev.bubble /\ d > 1
             THEN Deliver(t1, d - 1, ev, h, nest)
             ELSE [t |-> t1, handled |-> r.handled]

\* DialogContext.emit_event(name, value, bubble, from_leaf) on context d.
emit_event(t, d, name, value, bubble, from_leaf, h, nest) ==
    LET t1 == [t EXCEPT !.emitted = Append(@, [ctx |-> d, name |-> name, value |-> value,
                                                bubble |-> bubble, from_leaf |-> from_leaf,
                                                nest |-> nest])]
    IN  Deliver(t1, d, DialogEvent(name, value, bubble), h, nest)

\* A comparison that takes only None, not "", for a first run.
version_differs_unless_none(current, stored) == current # NoneVersion /\ current # stored

\* `if current and current != dialog_context.active_dialog.version`
version_differs(current, stored) == Truthy(current) /\ current # stored

\* The call on context d is recorded.
Called(t, d) == [t EXCEPT !.checks = @ \cup {d}]

\* A check that raises the event without the bubble flag.
check_without_bubble(t, d, h, nest) ==
    LET current == active_dialog(t, d).version
        t1 == [Called(t, d) EXCEPT !.stack[d].version = self_get_internal_version(d)]
    IN  IF version_differs(current, active_dialog(t1, d).version)
        THEN emit_event(t1, d, version_changed, Chain[d], FALSE, FALSE, h, nest).t
        ELSE t1

\* A check that stores the fingerprint only when it raises no event.
check_storing_when_quiet(t, d, h, nest) ==
    LET current == active_dialog(t, d).version
        t0 == Called(t, d)
        t1 == [t0 EXCEPT !.stack[d].version = self_get_internal_version(d)]
    IN  IF version_differs(current, self_get_internal_version(d))
        THEN emit_event(t0, d, version_changed, Chain[d], TRUE, FALSE, h, nest).t
        ELSE t1

\* A check that stores the fingerprint on an instance's first run only.
check_storing_first_run(t, d, h, nest) ==
    LET current == active_dialog(t, d).version
        t0 == Called(t, d)
        t1 == [t0 EXCEPT !.stack[d].version = self_get_internal_version(d)]
    IN  IF ~Truthy(current) THEN t1
        ELSE IF current # self_get_internal_version(d)
             THEN emit_event(t0, d, version_changed, Chain[d], TRUE, FALSE, h, nest).t
             ELSE t0

\* A check that stores the fingerprint of a changed container only once the
\* event was handled.
check_storing_when_handled(t, d, h, nest) ==
    LET current == active_dialog(t, d).version
        t0 == Called(t, d)
        t1 == [t0 EXCEPT !.stack[d].version = self_get_internal_version(d)]
    IN  IF version_differs(current, self_get_internal_version(d))
        THEN LET r == emit_event(t0, d, version_changed, Chain[d], TRUE, FALSE, h, nest)
             IN  IF r.handled
                 THEN [r.t EXCEPT !.stack[d].version = self_get_internal_version(d)]
                 ELSE r.t
        ELSE t1

\* A check that dispatches the event first and stores the fingerprint after.
check_storing_after_dispatch(t, d, h, nest) ==
    LET current == active_dialog(t, d).version
        t0 == Called(t, d)
    IN  IF version_differs(current, self_get_internal_version(d))
        THEN [emit_event(t0, d, version_changed, Chain[d], TRUE, FALSE, h, nest).t
                 EXCEPT !.stack[d].version = self_get_internal_version(d)]
        ELSE [t0 EXCEPT !.stack[d].version = self_get_internal_version(d)]

\* A check that compares against the dialog set's fingerprint directly
\* (`self.dialogs.get_internal_version()`), bypassing the container's override.
check_with_set_fingerprint(t, d) ==
    IF d > Len(t.stack)
    THEN [t |-> [Called(t, d) EXCEPT !.raised = TRUE], emit |-> FALSE]
    ELSE LET current == active_dialog(t, d).version
             t1 == [Called(t, d) EXCEPT !.stack[d].version = get_internal_version(d)]
         IN  [t |-> t1, emit |-> version_differs(current, active_dialog(t1, d).version)]

\* A check that returns quietly when the context has no active dialog.
check_skipping_missing(t, d) ==
    IF d > Len(t.stack)
    THEN [t |-> Called(t, d), emit |-> FALSE]
    ELSE LET current == active_dialog(t, d).version
             t1 == [Called(t, d) EXCEPT !.stack[d].version = self_get_internal_version(d)]
         IN  [t |-> t1, emit |-> version_differs(current, active_dialog(t1, d).version)]

\* A check that stores the fingerprint only when it has no event to raise.
check_storing_unless_changed(t, d) ==
    IF d > Len(t.stack)
    THEN [t |-> [Called(t, d) EXCEPT !.raised = TRUE], emit |-> FALSE]
    ELSE LET current == active_dialog(t, d).version
             differs == version_differs(current, self_get_internal_version(d))
         IN  [t |-> IF differs THEN Called(t, d)
                    ELSE [Called(t, d) EXCEPT !.stack[d].version = self_get_internal_version(d)],
              emit |-> differs]

\* check_for_version_change_async up to its await: the version is read and
\* stored and the two are compared.  On a context without an active dialog
\* the read of `active_dialog.version` fails (AttributeError on None).
check_until_dispatch(t, d) ==
    IF d > Len(t.stack)
    THEN [t |-> [Called(t, d) EXCEPT !.raised = TRUE], emit |-> FALSE]
    ELSE LET current == active_dialog(t, d).version
             t1 == [Called(t, d) EXCEPT !.stack[d].version = self_get_internal_version(d)]
         IN  [t |-> t1, emit |-> version_differs(current, active_dialog(t1, d).version)]

\* The awaited `dialog_context.emit_event(DialogEvents.version_changed, self.id, True, False)`.
dispatch_version_changed(t, d, h, nest) ==
    emit_event(t, d, version_changed, Chain[d], TRUE, FALSE, h, nest).t

\* DialogContainer.check_for_version_change_async(dialog_context), self being
\* the container that is the active dialog of context d.
check_for_version_change_async(t, d, h, nest) ==
    LET s == check_until_dispatch(t, d)
    IN  IF s.emit THEN dispatch_version_changed(s.t, d, h, nest) ELSE s.t

----------------------------------------------------------------------------
(* Operations *)

Quiet == [d \in 1..Depth |-> "ignore"]

IsContainer(d) == d \in 1..Depth /\ Chain[d] \in Containers

\* The handlers of contexts 1..d: that of context d chosen from P, those of its
\* ancestors from Q, the others never asked.
Handlers(d, P, Q) ==
    {h \in [1..Depth -> P \cup Q \cup {"ignore"}] :
        \A k \in 1..Depth : /\ k > d => h[k] = "ignore"
                            /\ k < d => h[k] \in Q \cup {"ignore"}}

NoOp(op, c, d) ==
    [op |-> op, conv |-> c, depth |-> d, h |-> Quiet, id |-> "", result |-> "",
     before |-> NoneVersion, fp |-> NoneVersion, prev |-> NoneVersion,
     name |-> "", bubble |-> FALSE,
     emitted |-> <<>>, observed |-> <<>>, delivered |-> <<>>, traces |-> <<>>,
     raised |-> FALSE]

\* A conversation's turn is not suspended in a check.
Idle == [at |-> "idle", depth |-> 0]

Init ==
    /\ dialogs = [k \in Containers |-> IF k = "O" THEN <<"C">> ELSE <<"L">>]
    /\ stack = [c \in {1} |-> <<>>]
    /\ checked = [c \in {1} |-> [d \in 1..Depth |-> NoneVersion]]
    /\ last = NoOp("init", 1, 0)
    /\ config = [k \in Containers |-> 0]
    /\ pc = [c \in {1} |-> Idle]

\* DialogContext.begin_dialog: the next dialog of the chain, id, starts; its
\* new instance has no version yet.
Begin(c, id) ==
    /\ pc[c] = Idle
    /\ Len(stack[c]) < Depth
    /\ Chain[Len(stack[c]) + 1] = id
    /\ \E v \in {NoneVersion, EmptyVersion} :
         stack' = [stack EXCEPT ![c] = Append(@, [id |-> Chain[Len(stack[c]) + 1], version |-> v])]
    /\ checked' = [checked EXCEPT ![c][Len(stack[c]) + 1] = NoneVersion]
    /\ last' = NoOp("begin", c, Len(stack[c]) + 1)
    /\ UNCHANGED <<dialogs, config, pc>>

\* DialogContext.end_dialog: the innermost dialog ends and its instance goes.
End(c) ==
    /\ pc[c] = Idle
    /\ Len(stack[c]) > 0
    /\ stack' = [stack EXCEPT ![c] = SubSeq(@, 1, Len(@) - 1)]
    /\ checked' = [checked EXCEPT ![c][Len(stack[c])] = NoneVersion]
    /\ last' = NoOp("end", c, Len(stack[c]))
    /\ UNCHANGED <<dialogs, config, pc>>

\* DialogSet.add between turns.
Add(k, id) ==
    /\ Len(dialogs[k]) < MaxDialogs
    /\ id \in ExtraIds(k)
    /\ id \notin Ids(dialogs[k])
    /\ dialogs' = [dialogs EXCEPT ![k] = Append(@, id)]
    /\ last' = NoOp("add", 1, 0)
    /\ UNCHANGED <<stack, checked, config, pc>>

\* A member other than the running child leaves the set between turns.
Remove(k, id) ==
    /\ id \in Ids(dialogs[k]) \cap ExtraIds(k)
    /\ dialogs' = [dialogs EXCEPT ![k] = SelectSeq(@, LAMBDA m : m # id)]
    /\ last' = NoOp("remove", 1, 0)
    /\ UNCHANGED <<stack, checked, config, pc>>

\* A container's begin/continue/resume entry point calls
\* check_for_version_change_async on the context whose active dialog it is.
Check(c, d, h) ==
    /\ pc[c] = Idle
    /\ d <= Len(stack[c])
    /\ Chain[d] \in Containers
    /\ LET t == check_for_version_change_async(Turn(stack[c]), d, h, 0)
       IN  /\ stack' = [stack EXCEPT ![c] = t.stack]
           /\ checked' = [checked EXCEPT ![c] =
                             [k \in 1..Depth |-> IF k \in t.checks THEN self_get_internal_version(k)
                                                 ELSE @[k]]]
           /\ last' = [NoOp("check", c, d) EXCEPT
                         !.h = h,
                         !.before = stack[c][d].version,
                         !.fp = self_get_internal_version(d),
                         !.prev = checked[c][d],
                         !.emitted = t.emitted, !.observed = t.observed,
                         !.delivered = t.delivered, !.traces = t.traces,
                         !.raised = t.raised]
    /\ UNCHANGED <<dialogs, config, pc>>

\* Application code raises an event on context d.
Emit(c, d, name, bubble, h) ==
    /\ pc[c] = Idle
    /\ d <= Len(stack[c])
    /\ LET t == emit_event(Turn(stack[c]), d, name, "payload", bubble, FALSE, h, 0).t
       IN  /\ stack' = [stack EXCEPT ![c] = t.stack]
           /\ last' = [NoOp("emit", c, d) EXCEPT
                         !.h = h, !.name = name, !.bubble = bubble,
                         !.emitted = t.emitted, !.observed = t.observed,
                         !.delivered = t.delivered, !.traces = t.traces,
                         !.raised = t.raised]
    /\ UNCHANGED <<dialogs, checked, config, pc>>

\* DialogContainer.create_child_context: abstract, `raise NotImplementedError()`.
create_child_context(t, d) == [t EXCEPT !.raised = TRUE]

\* create_child_context of a concrete container: a new context over the
\* container's dialog set; the parent's stack is left alone.
Concrete_create_child_context(t, d) == t

\* find_dialog(id) on the container active at depth d.
FindDialog(d, id) ==
    /\ IsContainer(d)
    /\ LET r == find_dialog(dialogs[Chain[d]], id)
       IN  /\ dialogs' = [dialogs EXCEPT ![Chain[d]] = r.members]
           /\ last' = [NoOp("find", 1, d) EXCEPT !.id = id, !.result = r.dialog,
                                                  !.raised = r.raised]
    /\ UNCHANGED <<stack, checked, config, pc>>

\* get_internal_version() on the container active at depth d.
GetInternalVersion(d) ==
    /\ IsContainer(d)
    /\ last' = [NoOp("version", 1, d) EXCEPT !.fp = self_get_internal_version(d)]
    /\ UNCHANGED <<dialogs, stack, checked, config, pc>>

\* create_child_context(dialog_context) of the container active at depth d,
\* abstract or concrete.
CreateChildContext(c, d, concrete) ==
    /\ pc[c] = Idle
    /\ d <= Len(stack[c])
    /\ IsContainer(d)
    /\ LET t == IF concrete THEN Concrete_create_child_context(Turn(stack[c]), d)
                ELSE create_child_context(Turn(stack[c]), d)
       IN  /\ stack' = [stack EXCEPT ![c] = t.stack]
           /\ last' = [NoOp("child", c, d) EXCEPT !.raised = t.raised,
                          !.result = IF concrete THEN "concrete" ELSE "abstract"]
    /\ UNCHANGED <<dialogs, checked, config, pc>>

\* check_for_version_change_async on a context whose stack is empty: the
\* container at depth d has not begun, or has ended.
CheckNoActive(c, d) ==
    /\ pc[c] = Idle
    /\ d = Len(stack[c]) + 1
    /\ IsContainer(d)
    /\ LET t == check_for_version_change_async(Turn(stack[c]), d, Quiet, 0)
       IN  /\ stack' = [stack EXCEPT ![c] = t.stack]
           /\ last' = [NoOp("check_empty", c, d) EXCEPT
                         !.emitted = t.emitted, !.observed = t.observed,
                         !.delivered = t.delivered, !.traces = t.traces,
                         !.raised = t.raised]
    /\ UNCHANGED <<dialogs, checked, config, pc>>

\* A turn of conversation c enters check_for_version_change_async on context
\* d and runs to its await, or to its end when there is nothing to raise.
CheckStart(c, d) ==
    /\ pc[c] = Idle
    /\ d <= Len(stack[c])
    /\ IsContainer(d)
    /\ LET s == check_until_dispatch(Turn(stack[c]), d)
       IN  /\ stack' = [stack EXCEPT ![c] = s.t.stack]
           /\ pc' = [pc EXCEPT ![c] = IF s.emit THEN [at |-> "dispatch", depth |-> d]
                                      ELSE Idle]
           /\ last' = [NoOp("check_start", c, d) EXCEPT
                         !.before = stack[c][d].version,
                         !.fp = self_get_internal_version(d),
                         !.prev = checked[c][d],
                         !.raised = s.t.raised]
    /\ checked' = [checked EXCEPT ![c][d] = self_get_internal_version(d)]
    /\ UNCHANGED <<dialogs, config>>

\* The suspended turn of conversation c is resumed: the awaited emit_event
\* runs and the check returns.
CheckDispatch(c, h) ==
    /\ pc[c].at = "dispatch"
    /\ LET t == dispatch_version_changed(Turn(stack[c]), pc[c].depth, h, 0)
       IN  /\ stack' = [stack EXCEPT ![c] = t.stack]
           /\ last' = [NoOp("check_dispatch", c, pc[c].depth) EXCEPT
                         !.h = h,
                         !.emitted = t.emitted, !.observed = t.observed,
                         !.delivered = t.delivered, !.traces = t.traces,
                         !.raised = t.raised]
    /\ pc' = [pc EXCEPT ![c] = Idle]
    /\ UNCHANGED <<dialogs, checked, config>>

\* The configuration flag of an overriding container changes between turns.
SetConfig(k, v) ==
    /\ k \in Overriding
    /\ v # config[k]
    /\ config' = [config EXCEPT ![k] = v]
    /\ last' = NoOp("config", 1, 0)
    /\ UNCHANGED <<dialogs, stack, checked, pc>>

\* Turns of a conversation whose containers may change between turns.
Next ==
    \/ \E c \in DOMAIN stack, id \in Containers : Begin(c, id)
    \/ \E c \in DOMAIN stack : End(c)
    \/ \E k \in Containers, id \in AllIds : Add(k, id)
    \/ \E k \in Containers, id \in AllIds : Remove(k, id)
    \/ \E c \in DOMAIN stack, d \in 1..Depth :
          \E h \in Handlers(d, Policies, Policies) : Check(c, d, h)

Spec == Init /\ [][Next]_vars

\* Events raised by application code on a tree whose containers stay as built.
NextEvents ==
    \/ \E c \in DOMAIN stack, id \in AllIds : Begin(c, id)
    \/ \E c \in DOMAIN stack : End(c)
    \/ \E c \in DOMAIN stack, d \in 1..Depth, name \in EventNames, bubble \in BOOLEAN :
          \E h \in Handlers(d, {"handle", "raise"}, {"handle", "raise"}) : Emit(c, d, name, bubble, h)

SpecEvents == Init /\ [][NextEvents]_vars

\* Turns between which only the configuration of an overriding container
\* changes: the dialog sets stay as built.
NextOverride ==
    \/ \E c \in DOMAIN stack, id \in Containers : Begin(c, id)
    \/ \E c \in DOMAIN stack : End(c)
    \/ \E k \in Containers, v \in {0, 1} : SetConfig(k, v)
    \/ \E c \in DOMAIN stack, d \in 1..Depth :
          \E h \in Handlers(d, Policies, Policies) : Check(c, d, h)

SpecOverride == Init /\ [][NextOverride]_vars

\* Turns that may be cancelled while a handler of the versionChanged event is
\* awaited.
NextCancel ==
    \/ \E c \in DOMAIN stack, id \in Containers : Begin(c, id)
    \/ \E c \in DOMAIN stack : End(c)
    \/ \E k \in Containers, id \in AllIds : Add(k, id)
    \/ \E k \in Containers, id \in AllIds : Remove(k, id)
    \/ \E c \in DOMAIN stack, d \in 1..Depth :
          \E h \in Handlers(d, {"cancel"}, {"cancel"}) : Check(c, d, h)

SpecCancel == Init /\ [][NextCancel]_vars

\* Every operation of a container, on instances with and without a stored
\* version.
NextFrame ==
    \/ \E c \in DOMAIN stack, id \in Containers : Begin(c, id)
    \/ \E c \in DOMAIN stack : End(c)
    \/ \E k \in Containers, id \in AllIds : Add(k, id)
    \/ \E k \in Containers, id \in AllIds : Remove(k, id)
    \/ \E c \in DOMAIN stack, d \in 1..Depth :
          \E h \in Handlers(d, {"handle"}, {"handle"}) : Check(c, d, h)
    \/ \E c \in DOMAIN stack, d \in 1..Depth, name \in EventNames, bubble \in BOOLEAN :
          \E h \in Handlers(d, {"handle"}, {"handle"}) : Emit(c, d, name, bubble, h)
    \/ \E d \in 1..Depth, id \in AllIds : FindDialog(d, id)
    \/ \E d \in 1..Depth : GetInternalVersion(d)
    \/ \E c \in DOMAIN stack, d \in 1..Depth, concrete \in BOOLEAN :
          CreateChildContext(c, d, concrete)
    \/ \E c \in DOMAIN stack, d \in 1..Depth : CheckNoActive(c, d)

SpecFrame == Init /\ [][NextFrame]_vars

\* Two conversations run the same containers, whose dialog sets they share;
\* the set of O changes between and during their turns.
Conversations == {1, 2}

InitTwo ==
    /\ dialogs = [k \in Containers |-> IF k = "O" THEN <<"C">> ELSE <<"L">>]
    /\ stack = [c \in Conversations |-> <<>>]
    /\ checked = [c \in Conversations |-> [d \in 1..Depth |-> NoneVersion]]
    /\ last = NoOp("init", 1, 0)
    /\ config = [k \in Containers |-> 0]
    /\ pc = [c \in Conversations |-> Idle]

\* The turns of the conversations interleave at the await of the check.
NextTwo ==
    \/ \E c \in DOMAIN stack, id \in Containers : Begin(c, id)
    \/ \E c \in DOMAIN stack : End(c)
    \/ \E id \in AllIds : Add("O", id)
    \/ \E id \in AllIds : Remove("O", id)
    \/ \E c \in DOMAIN stack, d \in 1..Depth : CheckStart(c, d)
    \/ \E c \in DOMAIN stack :
          \E h \in Handlers(pc[c].depth, {"handle"}, {"handle"}) : CheckDispatch(c, h)

SpecTwo == InitTwo /\ [][NextTwo]_vars

----------------------------------------------------------------------------
(* Properties of check_for_version_change_async, over Spec *)

\* The emit_event calls made by the checked call itself, not by calls nested in handlers.
OwnEmits(l) == SelectSeq(l.emitted, LAMBDA e : e.nest = 0)

\* The emit_event calls made on the context of the checked instance, at any nesting.
InstanceEmits(l) == SelectSeq(l.emitted, LAMBDA e : e.ctx = l.depth)

StoredVersion == stack[last.conv][last.depth].version

\* C1: a check emits the versionChanged event exactly when the version stored
\* before the call was set and differs from the fingerprint computed during the
\* call; then it makes exactly one emit_event call, on its own context, with the
\* container's id as value, bubble = true and from_leaf = false; otherwise none.
C1_EventExactlyOnChange ==
    last.op = "check" =>
        OwnEmits(last) =
            IF Truthy(last.before) /\ last.before # last.fp
            THEN << [ctx |-> last.depth, name |-> version_changed,
                     value |-> Chain[last.depth], bubble |-> TRUE,
                     from_leaf |-> FALSE, nest |-> 0] >>
            ELSE <<>>

C1_Witness ==
    /\ last.op = "check" /\ last.depth = 2
    /\ Truthy(last.before) /\ last.before # last.fp
    /\ Len(OwnEmits(last)) = 1
    /\ \E i \in DOMAIN last.observed : last.observed[i].depth = 1

\* C2: a check of an instance whose stored version is unset (None or "") raises
\* no event, whatever the current fingerprint: nothing is emitted and no handler
\* is asked.
C2_FirstRunNeverRaises ==
    (last.op = "check" /\ ~Truthy(last.before)) =>
        (last.emitted = <<>> /\ last.observed = <<>> /\ last.traces = <<>>)

C2_Witness ==
    /\ last.op = "check" /\ last.before = EmptyVersion
    /\ Len(dialogs[Chain[last.depth]]) = 2
    /\ last.emitted = <<>>

\* C3: after a check the stored version is the fingerprint just computed,
\* whether or not the versions differed, an event was raised or it was handled.
C3_StoresUnconditionally ==
    last.op = "check" => StoredVersion = last.fp

C3_Witness ==
    /\ last.op = "check"
    /\ Truthy(last.before) /\ last.before # last.fp
    /\ Len(last.emitted) = 1
    /\ \A i \in DOMAIN last.delivered : ~last.delivered[i].handled
    /\ StoredVersion = last.fp

\* C4: of two checks of one instance in succession (the container's set is
\* the same for both) the second raises nothing, and the two together raise at
\* most one event.
C4_Idempotent ==
    [][ (/\ last.op = "check" /\ last'.op = "check"
         /\ last'.conv = last.conv /\ last'.depth = last.depth
         /\ dialogs' = dialogs)
        => (/\ InstanceEmits(last') = <<>>
            /\ Len(InstanceEmits(last)) + Len(InstanceEmits(last')) <= 1) ]_vars

C4_Witness ==
    /\ last.op = "check" /\ last.prev = last.fp /\ last.before = last.fp
    /\ last.emitted = <<>>

\* C5: starting from an instance without a stored version, the first check
\* raises nothing, and every later check raises the event exactly once if the
\* fingerprint differs from the one the previous check stored and not at all
\* otherwise; every check stores the fingerprint it computed.
C5_ChangeReportedOnce ==
    last.op = "check" =>
        /\ StoredVersion = last.fp
        /\ checked[last.conv][last.depth] = last.fp
        /\ Len(InstanceEmits(last)) =
              IF last.prev = NoneVersion THEN 0
              ELSE IF last.fp # last.prev THEN 1 ELSE 0

C5_Witness ==
    /\ last.op = "check"
    /\ last.prev # NoneVersion /\ last.fp # last.prev
    /\ Len(InstanceEmits(last)) = 1
    /\ \A i \in DOMAIN last.delivered : ~last.delivered[i].handled

\* C6: the version is stored before the event is dispatched: a handler of the
\* checked container that calls the check again on the same instance raises no
\* further event, so the nesting ends by itself.
C6_ReentrantCheckIsQuiet ==
    (last.op = "check" /\ last.h[last.depth] = "recheck") =>
        /\ \A i \in DOMAIN last.emitted :
              last.emitted[i].ctx = last.depth => last.emitted[i].nest = 0
        /\ Len(InstanceEmits(last)) <= 1
        /\ last.raised => \E k \in 1..last.depth : last.h[k] = "raise"

C6_Witness ==
    /\ last.op = "check" /\ last.h[last.depth] = "recheck"
    /\ Len(InstanceEmits(last)) = 1
    /\ \E i \in DOMAIN last.observed : last.observed[i].depth = last.depth
    /\ ~last.raised

\* C9: a version change that no dialog handles is not fatal: the check returns
\* normally, and besides the stored version of the checked instance only the
\* traces (one per container the event passed) show that it happened.
C9_UnhandledChangeNotFatal ==
    [][ (/\ last'.op = "check" /\ last'.h = Quiet
         /\ last'.emitted # <<>>)
        => (/\ ~last'.raised
            /\ dialogs' = dialogs
            /\ stack' = [stack EXCEPT ![last'.conv][last'.depth].version = last'.fp]
            /\ Len(last'.traces) = last'.depth
            /\ \A i \in DOMAIN last'.delivered : ~last'.delivered[i].handled) ]_vars

C9_Witness ==
    /\ last.op = "check" /\ last.h = Quiet /\ last.depth = 2
    /\ Len(last.emitted) = 1 /\ Len(last.traces) = 2
    /\ ~last.raised

----------------------------------------------------------------------------
(* Properties of on_dialog_event and of bubbling, over SpecEvents *)

Contains(seq, x) == \E i \in DOMAIN seq : seq[i] = x

\* C7: what a container's on_dialog_event returns is the verdict of the base
\* handling, for every event and verdict, traced or not.
C7_ReturnsBaseVerdict ==
    \A i \in DOMAIN last.delivered :
        IsContainer(last.delivered[i].depth) =>
            last.delivered[i].handled = (last.h[last.delivered[i].depth] = "handle")

C7_Witness ==
    /\ last.op = "emit" /\ last.name = version_changed /\ last.depth = 2
    /\ last.delivered = << [depth |-> 2, handled |-> FALSE], [depth |-> 1, handled |-> TRUE] >>
    /\ Len(last.traces) = 1

\* The base calls after which a container has to trace: the base handling
\* returned not handled and the event is versionChanged.
ToTrace ==
    SelectSeq(last.observed,
              LAMBDA o : /\ IsContainer(o.depth)
                         /\ last.h[o.depth] = "ignore"
                         /\ o.name = version_changed)

\* C8: a container's on_dialog_event sends one trace for each versionChanged
\* event its base handling left unhandled, naming the event and the active
\* dialog of the context it was given, and sends no other trace.
C8_TraceIffUnhandledVersionChanged ==
    /\ Len(last.traces) = Len(ToTrace)
    /\ \A i \in DOMAIN last.traces :
          /\ i \in DOMAIN ToTrace
          /\ Contains(last.traces[i], ToTrace[i].name)
          /\ Contains(last.traces[i], stack[last.conv][ToTrace[i].depth].id)

C8_Witness ==
    /\ last.op = "emit" /\ last.name = version_changed /\ last.depth = 3
    /\ last.h = Quiet
    /\ Len(last.traces) = 2

\* The context at which an event raised on context n stops: the innermost
\* context from n outwards whose handler handles it, or the root.
StopsAt(h, n) ==
    IF \E k \in 1..n : h[k] = "handle"
    THEN CHOOSE k \in 1..n : h[k] = "handle" /\ \A j \in (k + 1)..n : h[j] # "handle"
    ELSE 1

\* C10: a bubbling event raised on context N is observed once at each context
\* from N outwards, in that order, up to and including the first one whose
\* handler returns handled, or the root; no context above it observes it.
C10_BubblesUntilHandled ==
    (last.op = "emit" /\ last.bubble /\ ~last.raised) =>
        /\ Len(last.observed) = last.depth - StopsAt(last.h, last.depth) + 1
        /\ \A i \in DOMAIN last.observed :
              /\ last.observed[i].depth = last.depth - i + 1
              /\ last.observed[i].name = last.name

C10_Witness ==
    /\ last.op = "emit" /\ last.bubble /\ last.depth = 3
    /\ last.h = [k \in 1..Depth |-> IF k = 2 THEN "handle" ELSE "ignore"]
    /\ Len(last.observed) = 2

\* C11: an event emitted with bubble = false is given to the active dialog of
\* the context it was emitted on and to no other dialog: no ancestor context
\* observes it, handled or not, and it is given to no sibling.
C11_UnbubbledStaysLocal ==
    (last.op = "emit" /\ ~last.bubble) =>
        /\ Len(last.observed) = 1
        /\ \A i \in DOMAIN last.observed :
              /\ last.observed[i].depth = last.depth
              /\ stack[last.conv][last.observed[i].depth].id = Chain[last.depth]
        /\ \A i \in DOMAIN last.delivered : last.delivered[i].depth = last.depth

C11_Witness ==
    /\ last.op = "emit" /\ ~last.bubble /\ last.depth = 3
    /\ last.h = Quiet
    /\ last.observed = << [depth |-> 3, name |-> "custom", value |-> "payload", bubble |-> FALSE] >>
    /\ last.delivered = << [depth |-> 3, handled |-> FALSE] >>

----------------------------------------------------------------------------
(* Further properties over Spec *)

ContainerDepths == {d \in 1..Depth : IsContainer(d)}

\* C12: the default get_internal_version of a container is the fingerprint of
\* its dialog set, a function of the members in order: it stays the same while
\* the membership does, and every added or removed member changes it.
C12_FingerprintFollowsMembership ==
    [][ \A d \in ContainerDepths :
          /\ get_internal_version(d) = DialogSet_get_internal_version(dialogs[Chain[d]])
          /\ (dialogs'[Chain[d]] # dialogs[Chain[d]])
               <=> (get_internal_version(d)' # get_internal_version(d)) ]_vars

C12_Witness ==
    /\ last.op = "remove"
    /\ \E c \in DOMAIN stack : \E d \in DOMAIN stack[c] :
          /\ Chain[d] \notin Overriding
          /\ Truthy(stack[c][d].version)
          /\ stack[c][d].version # get_internal_version(d)

\* The handlers that fail among those the last operation asked.
Failing == {k \in 1..Depth : last.h[k] = "raise" /\ \E i \in DOMAIN last.observed :
                                                        last.observed[i].depth = k}

\* C15: a failure of the base event handling goes through on_dialog_event and
\* through check_for_version_change_async to the caller: the check ends with
\* the failure, the failing call's container sends no trace and nothing is
\* asked after the failure.
C15_FailuresPropagate ==
    (last.op = "check" /\ Failing # {}) =>
        /\ last.raised
        /\ last.observed[Len(last.observed)].depth \in Failing
        /\ \A k \in Failing : \A i \in DOMAIN last.traces :
              ~Contains(last.traces[i], Chain[k])
        /\ \A k \in Failing : \A i \in DOMAIN last.delivered : last.delivered[i].depth # k

C15_Witness ==
    /\ last.op = "check" /\ last.depth = 2
    /\ last.h = [k \in 1..Depth |-> IF k = 1 THEN "raise" ELSE "ignore"]
    /\ last.raised
    /\ Len(last.traces) = 1

----------------------------------------------------------------------------
(* Properties over SpecOverride *)

\* The dialog sets as the containers were built.
Built == [k \in Containers |-> IF k = "O" THEN <<"C">> ELSE <<"L">>]

\* C17: the check compares against the container's own get_internal_version:
\* when a container that folds its configuration into its version has that
\* configuration changed, its dialog set staying as it was, the next check of
\* an instance with a stored version raises versionChanged.
C17_OverrideDecides ==
    (/\ last.op = "check" /\ Chain[last.depth] \in Overriding
     /\ dialogs = Built
     /\ last.prev # NoneVersion /\ last.prev # last.fp)
    => /\ Len(OwnEmits(last)) = 1
       /\ OwnEmits(last)[1].name = version_changed
       /\ OwnEmits(last)[1].value = Chain[last.depth]
       /\ StoredVersion = Override_get_internal_version(last.depth)

C17_Witness ==
    /\ last.op = "check" /\ Chain[last.depth] \in Overriding
    /\ dialogs = Built /\ config[Chain[last.depth]] = 1
    /\ Truthy(last.before) /\ last.before # last.fp
    /\ Len(OwnEmits(last)) = 1

----------------------------------------------------------------------------
(* Properties over SpecCancel *)

\* The turn of the last operation was cancelled while a handler was awaited.
Cancelled ==
    \E i \in DOMAIN last.observed : last.h[last.observed[i].depth] = "cancel"

\* C16: a turn cancelled during the handling of the version change commits no
\* part of the instance's mutation: the stored version is what it was before
\* the check.
C16_CancelledTurnKeepsVersion ==
    (last.op = "check" /\ Cancelled) => StoredVersion = last.before

----------------------------------------------------------------------------
(* Properties over SpecFrame *)

\* C13: a stored version that is set changes only in a step of
\* check_for_version_change_async on its conversation, and the calls of
\* on_dialog_event, find_dialog, get_internal_version and create_child_context
\* change no instance at all.
C13_OnlyCheckChangesVersion ==
    [][ /\ \A c \in DOMAIN stack : \A d \in DOMAIN stack[c] \cap DOMAIN stack'[c] :
             (Truthy(stack[c][d].version) /\ stack'[c][d].version # stack[c][d].version)
                => (last'.op = "check" /\ last'.conv = c)
        /\ last'.op \in {"emit", "find", "version", "child"} => stack' = stack ]_vars

C13_Witness ==
    /\ last.op = "emit" /\ last.name = version_changed /\ last.bubble
    /\ Len(last.traces) = 2
    /\ \A d \in DOMAIN stack[last.conv] : Truthy(stack[last.conv][d].version)

\* C14: find_dialog returns the dialog registered under the id, or not-found
\* without failing when no member has it, and leaves the dialog sets and the
\* instances as they were.
C14_FindDialogIsPureLookup ==
    [][ last'.op = "find" =>
          /\ ~last'.raised
          /\ last'.result = IF last'.id \in Ids(dialogs[Chain[last'.depth]])
                            THEN last'.id ELSE NotFound
          /\ dialogs' = dialogs
          /\ stack' = stack ]_vars

C14_Witness ==
    /\ last.op = "find" /\ last.depth = 1 /\ last.id = "y"
    /\ last.result = NotFound /\ ~last.raised
    /\ dialogs["O"] = <<"C", "x">>

\* C19: a check on a context without an active dialog fails before anything
\* is stored or emitted and leaves the context as it was.
C19_CheckNeedsActiveDialog ==
    [][ last'.op = "check_empty" =>
          /\ last'.raised
          /\ last'.emitted = <<>> /\ last'.observed = <<>> /\ last'.traces = <<>>
          /\ stack' = stack
          /\ dialogs' = dialogs ]_vars

C19_Witness ==
    /\ last.op = "check_empty" /\ last.depth = 1
    /\ stack[last.conv] = <<>>
    /\ last.raised

----------------------------------------------------------------------------
(* Properties over SpecTwo *)

\* C18: a check reads and writes the instance of its own conversation only:
\* whatever the interleaving, it raises the event of an instance exactly when
\* the fingerprint differs from the one that instance's previous check stored,
\* once, and it leaves the other conversation's instances, pending events and
\* history alone.
C18_DetectionIsPerInstance ==
    [][ \A c \in DOMAIN stack :
          (last'.conv = c /\ last'.op \in {"check_start", "check_dispatch"}) =>
            /\ \A o \in DOMAIN stack \ {c} :
                  stack'[o] = stack[o] /\ pc'[o] = pc[o] /\ checked'[o] = checked[o]
            /\ last'.op = "check_start" =>
                  /\ last'.before = stack[c][last'.depth].version
                  /\ stack'[c][last'.depth].version = last'.fp
                  /\ (pc'[c].at = "dispatch")
                       <=> (last'.prev # NoneVersion /\ last'.prev # last'.fp)
            /\ last'.op = "check_dispatch" =>
                  /\ last'.emitted = << [ctx |-> pc[c].depth, name |-> version_changed,
                                          value |-> Chain[pc[c].depth], bubble |-> TRUE,
                                          from_leaf |-> FALSE, nest |-> 0] >>
                  /\ stack'[c][pc[c].depth].version = checked[c][pc[c].depth]
                  /\ pc'[c] = Idle ]_vars

C18_Witness ==
    /\ last.op = "check_dispatch" /\ last.conv = 2
    /\ Len(last.emitted) = 1
    /\ pc[1].at = "dispatch"
    /\ stack[1][1].version = stack[2][1].version

====
